---- MODULE Spec2Model ----
(***************************************************************************)
(* A model of the agent pipeline: the in-memory message bus               *)
(* (communication.py), the master / sub-master / worker agents, the       *)
(* residual validator and the in-memory storage.                          *)
(*                                                                         *)
(* Every callback of the bus runs synchronously inside publish, so one    *)
(* top-level call (process_document_batch, publish, stop, ...) is one     *)
(* action; its whole call tree is computed by operators over a record     *)
(* that holds the program state.  Time is counted in tenths of a second.  *)
(***************************************************************************)
EXTENDS Integers, Sequences, FiniteSets, TLC

VARIABLES
    now,                \* the value time.time() returns, in tenths of a second
    channels,           \* MessageBus.channels (a defaultdict: only the keys present)
    subscribers,        \* MessageBus.subscribers (a defaultdict)
    message_history,    \* MessageBus.message_history
    calls,              \* the callback invocations publish has made, in order
    sub_masters,        \* MasterAgent.sub_masters, as the sub-master numbers
    workers,            \* SubMasterAgent.workers, as the worker numbers of each pool
    is_running,         \* BaseAgent.is_running of every agent
    run_status,         \* BaseAgent.status of every agent
    heartbeat_threads,  \* the heartbeat threads every agent has started
    agent_status,       \* InMemoryStorage.agent_status
    active_tasks,       \* MasterAgent.active_tasks
    completed_tasks,    \* MasterAgent.completed_tasks
    sm_active_tasks,    \* SubMasterAgent.active_tasks of every sub-master
    sm_task_results,    \* SubMasterAgent.task_results of every sub-master
    validation_history, \* ResidualAgent.validation_history
    storage_tasks,      \* InMemoryStorage.tasks
    checkpoints,        \* InMemoryStorage.checkpoints
    ret                 \* the last top-level call: its name, arguments and result

vars == <<now, channels, subscribers, message_history, calls, sub_masters,
          workers, is_running, run_status, heartbeat_threads, agent_status,
          active_tasks, completed_tasks, sm_active_tasks,
          sm_task_results, validation_history, storage_tasks, checkpoints, ret>>

\* The program state as one value, threaded through the call tree.
State ==
    [now |-> now, channels |-> channels, subscribers |-> subscribers,
     message_history |-> message_history, calls |-> calls,
     sub_masters |-> sub_masters, workers |-> workers, is_running |-> is_running,
     status |-> run_status, heartbeat_threads |-> heartbeat_threads,
     agent_status |-> agent_status,
     active_tasks |-> active_tasks, completed_tasks |-> completed_tasks,
     sm_active_tasks |-> sm_active_tasks, sm_task_results |-> sm_task_results,
     validation_history |-> validation_history, storage_tasks |-> storage_tasks,
     checkpoints |-> checkpoints]

\* The state a call tree ended in becomes the next state.
Commit(s) ==
    /\ now' = s.now
    /\ channels' = s.channels
    /\ subscribers' = s.subscribers
    /\ message_history' = s.message_history
    /\ calls' = s.calls
    /\ sub_masters' = s.sub_masters
    /\ workers' = s.workers
    /\ is_running' = s.is_running
    /\ run_status' = s.status
    /\ heartbeat_threads' = s.heartbeat_threads
    /\ agent_status' = s.agent_status
    /\ active_tasks' = s.active_tasks
    /\ completed_tasks' = s.completed_tasks
    /\ sm_active_tasks' = s.sm_active_tasks
    /\ sm_task_results' = s.sm_task_results
    /\ validation_history' = s.validation_history
    /\ storage_tasks' = s.storage_tasks
    /\ checkpoints' = s.checkpoints

----------------------------------------------------------------------------
(* Names.  Channel names, agent ids and callbacks are strings built from   *)
(* an agent's position; they are triples <<kind, i, j>>.                   *)

Name(kind, i, j) == <<kind, i, j>>

master_id == Name("master", 0, 0)
sub_master_id(i) == Name("submaster", i, 0)
worker_id(i, j) == Name("worker", i, j)
residual_id == Name("residual", 0, 0)

ch_submaster_results == Name("submaster_results", 0, 0)
ch_worker_results == Name("worker_results", 0, 0)
ch_task_status == Name("task_status", 0, 0)
ch_agent_heartbeat == Name("agent_heartbeat", 0, 0)
ch_tasks(sm) == Name("tasks", sm[2], 0)
ch_subtasks(w) == Name("subtasks", w[2], w[3])

\* dict.get(key, default)
Get(d, key, default) == IF key \in DOMAIN d THEN d[key] ELSE default

\* d[key] = value on a dict
Put(d, key, value) ==
    [k \in DOMAIN d \cup {key} |-> IF k = key THEN value ELSE d[k]]

\* del d[key]
Del(d, key) == [k \in DOMAIN d \ {key} |-> d[k]]

\* defaultdict(list).__getitem__: reading a missing key inserts an empty list
Touch(d, key) == IF key \in DOMAIN d THEN d ELSE Put(d, key, <<>>)

----------------------------------------------------------------------------
(* MessageBus                                                              *)

RECURSIVE Call(_, _, _)

RECURSIVE call_subscribers_no_except(_, _, _, _, _)
\* call_subscribers without the try/except: the first error ends the loop
call_subscribers_no_except(s, channel, message_with_timestamp, index, i) ==
    IF i > Len(s.subscribers[channel])
    THEN [st |-> s, raised |-> FALSE]
    ELSE LET callback == s.subscribers[channel][i]
             entered == [s EXCEPT !.calls =
                            Append(@, [callback |-> callback, index |-> index])]
             r == Call(callback, entered, message_with_timestamp)
         IN  IF r.raised
             THEN [st |-> r.st, raised |-> TRUE]
             ELSE call_subscribers_no_except(r.st, channel, message_with_timestamp,
                                             index, i + 1)

RECURSIVE call_subscribers(_, _, _, _, _)
\* the loop of publish over self.subscribers[channel]; the list is read live.
\* index is the position of the message in message_history.
call_subscribers(s, channel, message_with_timestamp, index, i) ==
    IF i > Len(s.subscribers[channel])
    THEN [st |-> s, raised |-> FALSE]
    ELSE LET callback == s.subscribers[channel][i]
             entered == [s EXCEPT !.calls =
                            Append(@, [callback |-> callback, index |-> index])]
             r == Call(callback, entered, message_with_timestamp)
         IN  \* except Exception: the error is printed and the loop goes on
             call_subscribers(r.st, channel, message_with_timestamp, index, i + 1)

\* publish calling the subscribers of every channel
publish_to_all(s, channel, message) ==
    LET message_with_timestamp ==
            [timestamp |-> s.now, channel |-> channel] @@ message
        s1 == [s EXCEPT
                 !.channels = [Touch(@, channel) EXCEPT
                                 ![channel] = Append(@, message_with_timestamp)],
                 !.message_history = Append(@, message_with_timestamp)]
        s2 == [s1 EXCEPT !.subscribers = Touch(@, channel)]
        RECURSIVE Each(_, _)
        Each(st, todo) ==
            IF todo = {} THEN [st |-> st, raised |-> FALSE]
            ELSE LET c == CHOOSE c \in todo : TRUE
                 IN  Each(call_subscribers(st, c, message_with_timestamp,
                                           Len(s1.message_history), 1).st,
                          todo \ {c})
    IN  Each(s2, DOMAIN s2.subscribers)

publish(s, channel, message) ==
    LET message_with_timestamp ==
            [timestamp |-> s.now, channel |-> channel] @@ message
        s1 == [s EXCEPT
                 !.channels = [Touch(@, channel) EXCEPT
                                 ![channel] = Append(@, message_with_timestamp)],
                 !.message_history = Append(@, message_with_timestamp)]
        s2 == [s1 EXCEPT !.subscribers = Touch(@, channel)]
    IN  call_subscribers(s2, channel, message_with_timestamp,
                         Len(s1.message_history), 1)

subscribe(s, channel, callback) ==
    [s EXCEPT !.subscribers = [Touch(@, channel) EXCEPT
                                 ![channel] = Append(@, callback)]]

RECURSIVE SelectSeq2(_, _)
\* [msg for msg in seq if msg["timestamp"] > since]
SelectSeq2(seq, since) ==
    IF Len(seq) = 0 THEN <<>>
    ELSE LET rest == SelectSeq2(Tail(seq), since)
         IN  IF Head(seq).timestamp > since THEN <<Head(seq)>> \o rest ELSE rest

\* get_messages with >= for >
get_messages_inclusive(s, channel, since) ==
    [st |-> [s EXCEPT !.channels = Touch(@, channel)],
     value |-> SelectSeq2(Touch(s.channels, channel)[channel], since - 1)]

get_messages(s, channel, since) ==
    [st |-> [s EXCEPT !.channels = Touch(@, channel)],
     value |-> SelectSeq2(Touch(s.channels, channel)[channel], since)]

broadcast_task_status(s, task_id, status, agent_id) ==
    publish(s, ch_task_status,
            [task_id |-> task_id, status |-> status, agent_id |-> agent_id]).st

broadcast_agent_heartbeat(s, agent_id, agent_type, status) ==
    publish(s, ch_agent_heartbeat,
            [agent_id |-> agent_id, agent_type |-> agent_type, status |-> status]).st

send_task_assignment(s, sm, task_data) ==
    publish(s, ch_tasks(sm), [sub_master_id |-> sm, task_data |-> task_data]).st

send_worker_assignment(s, w, subtask_data) ==
    publish(s, ch_subtasks(w), [worker_id |-> w, subtask_data |-> subtask_data]).st

----------------------------------------------------------------------------
(* InMemoryStorage                                                         *)

TicksPerSecond == 10

\* int(time.time())
Seconds(t) == t \div TicksPerSecond

\* uuid.uuid4(): a key no earlier call returned
Uuid(s) == [kind |-> "uuid", a |-> Cardinality(DOMAIN s.storage_tasks) + 1, b |-> 0]

store_task(s, task_data) ==
    LET task_id == Uuid(s)
    IN  [s EXCEPT !.storage_tasks =
            Put(@, task_id,
                [task_id |-> task_id, created_at |-> s.now, status |-> "pending"]
                    @@ task_data)]

update_task_status(s, task_id, status, result_data) ==
    IF task_id \in DOMAIN s.storage_tasks
    THEN [s EXCEPT !.storage_tasks[task_id] =
            IF DOMAIN result_data # {}
            THEN [result |-> result_data, status |-> status, updated_at |-> s.now] @@ @
            ELSE [status |-> status, updated_at |-> s.now] @@ @]
    ELSE s

storage_create_checkpoint(s, agent_id, checkpoint_data) ==
    LET checkpoint_id == [agent_id |-> agent_id, second |-> Seconds(s.now)]
    IN  [s EXCEPT !.checkpoints =
            Put(@, checkpoint_id,
                [agent_id |-> agent_id, checkpoint_data |-> checkpoint_data,
                 created_at |-> s.now])]

\* Python's None
None == [kind |-> "None"]

\* load_checkpoint looking at the checkpoints of every agent
storage_load_checkpoint_of_any(s, agent_id) ==
    LET agent_checkpoints == DOMAIN s.checkpoints
    IN  IF agent_checkpoints # {}
        THEN LET latest == CHOOSE k \in agent_checkpoints :
                               \A j \in agent_checkpoints :
                                   s.checkpoints[j].created_at
                                       <= s.checkpoints[k].created_at
             IN  s.checkpoints[latest].checkpoint_data
        ELSE None

\* InMemoryStorage.load_checkpoint: created_at is an ISO timestamp, and the
\* order of two such strings is the order of their times
storage_load_checkpoint(s, agent_id) ==
    LET agent_checkpoints == {k \in DOMAIN s.checkpoints :
                                 s.checkpoints[k].agent_id = agent_id}
    IN  IF agent_checkpoints # {}
        THEN LET latest == CHOOSE k \in agent_checkpoints :
                               \A j \in agent_checkpoints :
                                   s.checkpoints[j].created_at
                                       <= s.checkpoints[k].created_at
             IN  s.checkpoints[latest].checkpoint_data
        ELSE None

update_agent_heartbeat(s, agent_id, agent_state) ==
    [s EXCEPT !.agent_status =
        Put(@, agent_id, [status |-> agent_state, last_heartbeat |-> s.now])]

----------------------------------------------------------------------------
(* BaseAgent.  A heartbeat thread is [pc, wake_at]: it tests is_running    *)
(* ("check"), sends a heartbeat ("beat"), sleeps ("sleep") until wake_at   *)
(* and tests again; it ends ("done") when the test fails.                  *)

HeartbeatInterval == 50

\* "Master", "SubMaster", "Worker" or "Residual", from the agent's id
type_of(agent_id) == agent_id[1]

\* BaseAgent.__init__
agent_init(s, agent_id) ==
    [s EXCEPT !.is_running = Put(@, agent_id, FALSE),
              !.status = Put(@, agent_id, "initializing"),
              !.heartbeat_threads = Put(@, agent_id, <<>>)]

\* BaseAgent.start_heartbeat: the new thread is about to test is_running
start_heartbeat(s, agent_id) ==
    [s EXCEPT !.heartbeat_threads[agent_id] =
        Append(@, [pc |-> "check", wake_at |-> 0])]

\* BaseAgent.start
agent_start(s, agent_id) ==
    start_heartbeat([s EXCEPT !.is_running[agent_id] = TRUE,
                              !.status[agent_id] = "running"],
                    agent_id)

\* BaseAgent.stop: the join returns after at most a second, whether or not
\* the thread has ended
agent_stop(s, agent_id) ==
    [s EXCEPT !.is_running[agent_id] = FALSE,
              !.status[agent_id] = "stopped"]

\* BaseAgent.send_heartbeat
send_heartbeat(s, agent_id) ==
    broadcast_agent_heartbeat(
        update_agent_heartbeat(s, agent_id, s.status[agent_id]),
        agent_id, type_of(agent_id), s.status[agent_id])

\* one step of heartbeat_loop in the k-th thread of the agent
heartbeat_loop(s, agent_id, k) ==
    LET thread == s.heartbeat_threads[agent_id][k]
    IN  CASE thread.pc = "check" ->
                [s EXCEPT !.heartbeat_threads[agent_id][k].pc =
                    IF s.is_running[agent_id] THEN "beat" ELSE "done"]
          [] thread.pc = "beat" ->
                [send_heartbeat(s, agent_id) EXCEPT
                    !.heartbeat_threads[agent_id][k] =
                        [pc |-> "sleep", wake_at |-> s.now + HeartbeatInterval]]
          [] thread.pc = "sleep" ->
                [s EXCEPT !.heartbeat_threads[agent_id][k].pc = "check"]
          [] OTHER -> s

create_checkpoint(s, agent_id, data) == storage_create_checkpoint(s, agent_id, data)

\* BaseAgent.load_checkpoint
load_checkpoint(s, agent_id) == storage_load_checkpoint(s, agent_id)

----------------------------------------------------------------------------
(* WorkerAgent.  A document is [id, poison, nchunks, nwords]: chunking,    *)
(* vector search and the map summary belong to the collaborators, and a    *)
(* document yields nchunks chunks with nwords words in all, or (poison)    *)
(* makes the processing raise.                                             *)

WorkerLatency == 2
MinWorkerTime == 5

Max(a, b) == IF a > b THEN a ELSE b

worker_process_task(s, w, task_data) ==
    LET document == task_data.document
        subtask_id == Get(task_data, "subtask_id", "unknown")
        s1 == [s EXCEPT !.now = @ + WorkerLatency]
    IN  IF document.poison
        THEN [st |-> create_checkpoint(s1, w,
                        [subtask_id |-> subtask_id, document_id |-> document.id,
                         error |-> "error",
                         retry_count |-> Get(task_data, "retry_count", 0) + 1]),
              raised |-> TRUE]
        ELSE [st |-> s1, raised |-> FALSE,
              value |-> [subtask_id |-> subtask_id,
                         document_id |-> document.id,
                         status |-> "completed",
                         chunks_processed |-> document.nchunks,
                         total_words |-> document.nwords,
                         processing_time |-> Max(MinWorkerTime, document.nchunks),
                         worker_id |-> w]]

report_completion(s, w, task_data, result) ==
    LET s1 == IF "task_id" \in DOMAIN task_data
              THEN broadcast_task_status(s, task_data.task_id, "worker_completed", w)
              ELSE s
    IN  publish(s1, ch_worker_results, [worker_id |-> w, result |-> result]).st

report_error(s, w, task_data) ==
    IF "task_id" \in DOMAIN task_data
    THEN broadcast_task_status(s, task_data.task_id, "worker_error", w)
    ELSE s

handle_subtask(s, w, message) ==
    IF ~s.is_running[w]
    THEN [st |-> s, raised |-> FALSE]
    ELSE LET subtask_data == message.subtask_data
             r == worker_process_task(s, w, subtask_data)
         IN  IF r.raised
             THEN [st |-> report_error(r.st, w, subtask_data), raised |-> FALSE]
             ELSE [st |-> report_completion(r.st, w, subtask_data, r.value),
                   raised |-> FALSE]

----------------------------------------------------------------------------
(* SubMasterAgent                                                          *)

WaitTimeout == 300
PollInterval == 5

\* f"{task_id}_subtask_{chunk_id}_{i}"
SubtaskId(task_id, chunk_id, i) == [task_id |-> task_id, chunk_id |-> chunk_id, i |-> i]

\* text.split("_subtask_")[0] on the text of a task id: the id itself unless its
\* text holds the separator; the text of [kind |-> "task_subtask", a, b] is
\* "task_<a>_<b>_subtask_0", which splits to "task_<a>_<b>"
split_head(text) ==
    IF text.kind = "task_subtask" THEN [text EXCEPT !.kind = "task"] ELSE text

\* subtask_id.split("_subtask_")[0]: the first separator of
\* f"{task_id}_subtask_{chunk_id}_{i}" is the one inside the task id, if any
TaskIdOf(subtask_id) == split_head(subtask_id.task_id)

\* handle_worker_result counting a result without keeping it
handle_worker_result_dropping(s, sm, message) ==
    LET result == Get(message, "result", <<>>)
    IN  IF "subtask_id" \notin DOMAIN result
        THEN [st |-> s, raised |-> FALSE]
        ELSE LET task_id == TaskIdOf(result.subtask_id)
             IN  IF task_id \in DOMAIN s.sm_active_tasks[sm]
                 THEN [st |-> [s EXCEPT !.sm_active_tasks[sm][task_id].completed_docs =
                                  @ + 1],
                       raised |-> FALSE]
                 ELSE [st |-> s, raised |-> FALSE]

handle_worker_result(s, sm, message) ==
    LET result == Get(message, "result", <<>>)
    IN  IF "subtask_id" \notin DOMAIN result
        THEN [st |-> s, raised |-> FALSE]
        ELSE LET task_id == TaskIdOf(result.subtask_id)
             IN  IF task_id \in DOMAIN s.sm_active_tasks[sm]
                 THEN [st |-> [s EXCEPT !.sm_active_tasks[sm][task_id] =
                                  [@ EXCEPT !.worker_results = Append(@, result),
                                            !.completed_docs = @ + 1]],
                       raised |-> FALSE]
                 ELSE [st |-> s, raised |-> FALSE]

RECURSIVE assign_documents(_, _, _, _, _, _)
\* the loop of process_task over enumerate(document_chunk), from index i (0-based)
assign_documents(s, sm, task_id, document_chunk, chunk_id, i) ==
    IF i >= Len(document_chunk)
    THEN [st |-> s, raised |-> FALSE]
    ELSE IF Len(s.workers[sm]) = 0
    THEN [st |-> s, raised |-> TRUE]     \* i % len(self.workers): ZeroDivisionError
    ELSE LET worker == s.workers[sm][(i % Len(s.workers[sm])) + 1]
             s1 == send_worker_assignment(s, worker,
                      [task_id |-> task_id, document |-> document_chunk[i + 1],
                       subtask_id |-> SubtaskId(task_id, chunk_id, i)])
         IN  assign_documents(s1, sm, task_id, document_chunk, chunk_id, i + 1)

RECURSIVE wait_loop(_, _, _, _)
\* the while loop of wait_for_completion
wait_loop(s, sm, task_id, start_time) ==
    IF s.now - start_time < WaitTimeout
    THEN IF task_id \notin DOMAIN s.sm_active_tasks[sm]
         THEN s
         ELSE LET task_info == s.sm_active_tasks[sm][task_id]
              IN  IF task_info.completed_docs >= task_info.total_docs
                  THEN s
                  ELSE wait_loop([s EXCEPT !.now = @ + PollInterval],
                                 sm, task_id, start_time)
    ELSE s

\* wait_for_completion reading its start time one poll late
wait_for_completion_late(s, sm, task_id) ==
    wait_loop(s, sm, task_id, s.now + PollInterval)

wait_for_completion(s, sm, task_id) == wait_loop(s, sm, task_id, s.now)

compile_results(s, sm, task_id) ==
    IF task_id \notin DOMAIN s.sm_active_tasks[sm]
    THEN [st |-> s, value |-> [error |-> "Task not found"]]
    ELSE LET task_info == s.sm_active_tasks[sm][task_id]
             worker_results == task_info.worker_results
             Sum(field) ==
                 LET RECURSIVE Go(_)
                     Go(k) == IF k = 0 THEN 0
                              ELSE Go(k - 1) + Get(worker_results[k], field, 0)
                 IN  Go(Len(worker_results))
             compiled_result ==
                 [task_id |-> task_id,
                  sub_master_id |-> sm,
                  total_documents |-> task_info.total_docs,
                  successful_documents |->
                      Cardinality({k \in 1..Len(worker_results) :
                          Get(worker_results[k], "status", "") = "completed"}),
                  total_chunks_processed |-> Sum("chunks_processed"),
                  total_words_processed |-> Sum("total_words"),
                  processing_time |-> s.now - task_info.start_time,
                  worker_results |-> worker_results]
         IN  [st |-> [s EXCEPT !.sm_task_results[sm] = Put(@, task_id, compiled_result),
                               !.sm_active_tasks[sm] = Del(@, task_id)],
              value |-> compiled_result]

sub_master_process_task(s, sm, task_data) ==
    LET task_id == task_data.task_id
        document_chunk == Get(task_data, "document_chunk", <<>>)
        chunk_id == Get(task_data, "chunk_id", 0)
        s1 == [s EXCEPT !.sm_active_tasks[sm] =
                  Put(@, task_id,
                      [documents |-> document_chunk,
                       total_docs |-> Len(document_chunk),
                       completed_docs |-> 0,
                       worker_results |-> <<>>,
                       start_time |-> s.now])]
        a == assign_documents(s1, sm, task_id, document_chunk, chunk_id, 0)
    IN  IF a.raised
        THEN [st |-> a.st, raised |-> TRUE]
        ELSE LET c == compile_results(wait_for_completion(a.st, sm, task_id), sm, task_id)
             IN  [st |-> c.st, raised |-> FALSE, value |-> c.value]

report_task_completion(s, sm, task_id, result) ==
    LET s1 == broadcast_task_status(s, task_id, "submaster_completed", sm)
    IN  publish(s1, ch_submaster_results,
                [sub_master_id |-> sm, task_id |-> task_id, result |-> result]).st

report_task_error(s, sm, task_id) ==
    broadcast_task_status(s, task_id, "submaster_error", sm)

\* handle_task_assignment reporting an error when a worker result is missing
handle_task_assignment_strict(s, sm, message) ==
    IF ~s.is_running[sm]
    THEN [st |-> s, raised |-> FALSE]
    ELSE LET task_data == message.task_data
             r == sub_master_process_task(s, sm, task_data)
         IN  IF r.raised \/ Len(r.value.worker_results) < r.value.total_documents
             THEN [st |-> report_task_error(r.st, sm, task_data.task_id),
                   raised |-> FALSE]
             ELSE [st |-> report_task_completion(r.st, sm, task_data.task_id, r.value),
                   raised |-> FALSE]

handle_task_assignment(s, sm, message) ==
    IF ~s.is_running[sm]
    THEN [st |-> s, raised |-> FALSE]
    ELSE LET task_data == message.task_data
             r == sub_master_process_task(s, sm, task_data)
         IN  IF r.raised
             THEN [st |-> report_task_error(r.st, sm, task_data.task_id),
                   raised |-> FALSE]
             ELSE [st |-> report_task_completion(r.st, sm, task_data.task_id, r.value),
                   raised |-> FALSE]

----------------------------------------------------------------------------
(* ResidualAgent                                                           *)

MinProcessingTime == 1
MaxProcessingTime == 3000

RECURSIVE Gcd(_, _)
Gcd(a, b) == IF b = 0 THEN a ELSE Gcd(b, a % b)

\* a / b on floats, for a >= 0 and b > 0: the quotient as a reduced fraction
Quotient(a, b) == LET g == Gcd(a, b) IN [num |-> a \div g, den |-> b \div g]

\* the numbers 0 and 0.0
Zero == [num |-> 0, den |-> 1]

validate_worker_result(worker_result) ==
    IF \E field \in {"document_id", "status", "chunks_processed", "worker_id"} :
           field \notin DOMAIN worker_result
    THEN FALSE
    ELSE IF worker_result.status # "completed"
    THEN FALSE
    ELSE IF worker_result.chunks_processed <= 0
    THEN FALSE
    ELSE TRUE

validate_single_result(result) ==
    IF \E field \in {"task_id", "sub_master_id", "total_documents",
                     "successful_documents"} : field \notin DOMAIN result
    THEN FALSE
    ELSE IF result.successful_documents = 0
    THEN FALSE
    ELSE LET processing_time == Get(result, "processing_time", 0)
             worker_results == Get(result, "worker_results", <<>>)
         IN  IF processing_time < MinProcessingTime
                  \/ processing_time > MaxProcessingTime
             THEN FALSE
             ELSE IF Len(worker_results) = 0
             THEN FALSE
             ELSE \A k \in 1..Len(worker_results) :
                      validate_worker_result(worker_results[k])

get_failure_reason(result) ==
    IF "task_id" \notin DOMAIN result
    THEN "Missing task ID"
    ELSE IF Get(result, "successful_documents", 0) = 0
    THEN "No successful documents processed"
    ELSE IF Len(Get(result, "worker_results", <<>>)) = 0
    THEN "No worker results"
    ELSE "Unknown validation failure"

RECURSIVE validate_loop_aborting(_, _, _)
\* the loop of validate_results leaving at the first failing result
validate_loop_aborting(report, task_results, k) ==
    IF k > Len(task_results)
    THEN report
    ELSE LET result == task_results[k]
         IN  IF validate_single_result(result)
             THEN validate_loop_aborting([report EXCEPT !.successful = @ + 1],
                                         task_results, k + 1)
             ELSE [report EXCEPT
                      !.failed = @ + 1,
                      !.anomalies = Append(@,
                          [result_id |-> Get(result, "task_id", "unknown"),
                           reason |-> get_failure_reason(result)])]

RECURSIVE validate_loop(_, _, _)
\* the for loop of validate_results, from position k
validate_loop(report, task_results, k) ==
    IF k > Len(task_results)
    THEN report
    ELSE LET result == task_results[k]
         IN  IF validate_single_result(result)
             THEN validate_loop([report EXCEPT !.successful = @ + 1],
                                task_results, k + 1)
             ELSE validate_loop(
                      [report EXCEPT
                          !.failed = @ + 1,
                          !.anomalies = Append(@,
                              [result_id |-> Get(result, "task_id", "unknown"),
                               reason |-> get_failure_reason(result)])],
                      task_results, k + 1)

validate_results(s, task_results) ==
    LET initial == [validator_id |-> residual_id,
                    total_results |-> Len(task_results),
                    successful |-> 0,
                    failed |-> 0,
                    anomalies |-> <<>>,
                    quality_score |-> Zero,
                    validation_time |-> s.now]
        counted == validate_loop(initial, task_results, 1)
        validation_report ==
            IF counted.total_results > 0
            THEN [counted EXCEPT !.quality_score =
                     Quotient(counted.successful, counted.total_results)]
            ELSE counted
    IN  [st |-> [s EXCEPT !.validation_history = Append(@, validation_report)],
         value |-> validation_report]

----------------------------------------------------------------------------
(* MasterAgent                                                             *)

RECURSIVE SumField(_, _)
\* sum(r.get(field, 0) for r in results)
SumField(results, field) ==
    IF Len(results) = 0 THEN 0
    ELSE Get(Head(results), field, 0) + SumField(Tail(results), field)

\* aggregate_results reporting every document that is not successful twice
aggregate_results_skewed(sub_master_results) ==
    LET total_docs == SumField(sub_master_results, "total_documents")
        successful_docs == SumField(sub_master_results, "successful_documents")
    IN  [total_documents_processed |-> total_docs,
         successful_documents |-> successful_docs,
         failed_documents |-> 2 * (total_docs - successful_docs),
         total_chunks_processed |->
             SumField(sub_master_results, "total_chunks_processed"),
         total_words_processed |->
             SumField(sub_master_results, "total_words_processed"),
         success_rate |-> IF total_docs > 0
                          THEN Quotient(successful_docs, total_docs)
                          ELSE Zero,
         sub_master_results |-> sub_master_results]

aggregate_results(sub_master_results) ==
    LET total_docs == SumField(sub_master_results, "total_documents")
        successful_docs == SumField(sub_master_results, "successful_documents")
        total_chunks == SumField(sub_master_results, "total_chunks_processed")
        total_words == SumField(sub_master_results, "total_words_processed")
    IN  [total_documents_processed |-> total_docs,
         successful_documents |-> successful_docs,
         failed_documents |-> total_docs - successful_docs,
         total_chunks_processed |-> total_chunks,
         total_words_processed |-> total_words,
         success_rate |-> IF total_docs > 0
                          THEN Quotient(successful_docs, total_docs)
                          ELSE Zero,
         sub_master_results |-> sub_master_results]

finalize_task(s, task_id) ==
    IF task_id \notin DOMAIN s.active_tasks
    THEN s
    ELSE LET task_info == s.active_tasks[task_id]
             sub_master_results == task_info.sub_master_results
             v == validate_results(s, sub_master_results)
             final_result ==
                 [task_id |-> task_id,
                  master_id |-> master_id,
                  total_processing_time |-> s.now - task_info.start_time,
                  validation |-> v.value]
                     @@ aggregate_results(sub_master_results)
             s1 == [v.st EXCEPT !.completed_tasks = Put(@, task_id, final_result)]
             s2 == update_task_status(s1, task_id, "completed", final_result)
             s3 == [s2 EXCEPT !.active_tasks = Del(@, task_id)]
         IN  broadcast_task_status(s3, task_id, "master_completed", master_id)

\* handle_submaster_result finalizing only once more results than sub-masters are in
handle_submaster_result_late(s, message) ==
    LET task_id == Get(message, "task_id", "none")
        result == Get(message, "result", <<>>)
    IN  IF "task_id" \notin DOMAIN message \/ task_id \notin DOMAIN s.active_tasks
        THEN [st |-> s, raised |-> FALSE]
        ELSE LET s1 == [s EXCEPT !.active_tasks[task_id].sub_master_results =
                           Append(@, result)]
             IN  IF Len(s1.active_tasks[task_id].sub_master_results) > Len(s1.sub_masters)
                 THEN [st |-> finalize_task(s1, task_id), raised |-> FALSE]
                 ELSE [st |-> s1, raised |-> FALSE]

handle_submaster_result(s, message) ==
    LET task_id == Get(message, "task_id", "none")
        result == Get(message, "result", <<>>)
    IN  IF "task_id" \notin DOMAIN message \/ task_id \notin DOMAIN s.active_tasks
        THEN [st |-> s, raised |-> FALSE]
        ELSE LET s1 == [s EXCEPT !.active_tasks[task_id].sub_master_results =
                           Append(@, result)]
                 expected_results == Len(s1.sub_masters)
                 actual_results == Len(s1.active_tasks[task_id].sub_master_results)
             IN  IF actual_results >= expected_results
                 THEN [st |-> finalize_task(s1, task_id), raised |-> FALSE]
                 ELSE [st |-> s1, raised |-> FALSE]

RECURSIVE split_loop(_, _, _)
\* for i in range(0, len(documents), chunk_size): chunks.append(documents[i:i+chunk_size])
split_loop(documents, chunk_size, i) ==
    IF i >= Len(documents)
    THEN <<>>
    ELSE <<SubSeq(documents, i + 1,
                  IF i + chunk_size < Len(documents) THEN i + chunk_size
                  ELSE Len(documents))>>
             \o split_loop(documents, chunk_size, i + chunk_size)

RECURSIVE merge_loop(_, _)
\* while len(chunks) > len(self.sub_masters): merge the last two chunks
merge_loop(chunks, n_sub_masters) ==
    IF Len(chunks) > n_sub_masters
    THEN LET last_chunk == chunks[Len(chunks)]
             popped == SubSeq(chunks, 1, Len(chunks) - 1)
         IN  merge_loop([popped EXCEPT ![Len(popped)] = @ \o last_chunk],
                        n_sub_masters)
    ELSE chunks

\* split_documents without the loop that merges the chunks in excess
split_documents_unmerged(documents, n_sub_masters) ==
    IF Len(documents) = 0
    THEN <<>>
    ELSE split_loop(documents, Max(1, Len(documents) \div n_sub_masters), 0)

split_documents(documents, n_sub_masters) ==
    IF Len(documents) = 0
    THEN <<>>
    ELSE LET chunk_size == Max(1, Len(documents) \div n_sub_masters)
         IN  merge_loop(split_loop(documents, chunk_size, 0), n_sub_masters)

TaskId(s) ==
    [kind |-> "task", a |-> Seconds(s.now), b |-> Cardinality(DOMAIN s.active_tasks)]

RECURSIVE distribute(_, _, _, _)
\* for i, chunk in enumerate(document_chunks), from index i (0-based)
distribute(s, task_id, document_chunks, i) ==
    IF i >= Len(document_chunks)
    THEN s
    ELSE IF i < Len(s.sub_masters)
    THEN distribute(send_task_assignment(s, s.sub_masters[i + 1],
                        [task_id |-> task_id,
                         document_chunk |-> document_chunks[i + 1],
                         chunk_id |-> i]),
                    task_id, document_chunks, i + 1)
    ELSE distribute(s, task_id, document_chunks, i + 1)

process_document_batch(s, documents) ==
    LET task_id == TaskId(s)
        s1 == store_task(s, [task_id |-> task_id, documents |-> documents,
                             total_docs |-> Len(documents),
                             sub_master_assignments |-> <<>>])
        s2 == [s1 EXCEPT !.active_tasks =
                  Put(@, task_id,
                      [total_docs |-> Len(documents),
                       sub_master_results |-> <<>>,
                       start_time |-> s1.now,
                       status |-> "processing"])]
        document_chunks == split_documents(documents, Len(s.sub_masters))
        s3 == distribute(s2, task_id, document_chunks, 0)
    IN  [st |-> update_task_status(s3, task_id, "distributed", <<>>),
         value |-> task_id]

get_task_status(s, task_id) ==
    IF task_id \in DOMAIN s.completed_tasks
    THEN [status |-> "completed", result |-> s.completed_tasks[task_id]]
    ELSE IF task_id \in DOMAIN s.active_tasks
    THEN [status |-> "processing", progress |-> s.active_tasks[task_id]]
    ELSE IF task_id \in DOMAIN s.storage_tasks
    THEN [status |-> Get(s.storage_tasks[task_id], "status", "unknown"),
          task_data |-> s.storage_tasks[task_id]]
    ELSE [status |-> "not_found"]

----------------------------------------------------------------------------
(* The bound methods that are called with one argument: the callbacks the  *)
(* bus can hold, and process_task, which a caller holds directly and no    *)
(* subscription ever names.  A probe is a subscriber of the environment:   *)
(* probe_ok returns, probe_raise raises, probe_publish publishes from      *)
(* inside the callback.                                                    *)

Call(callback, s, message) ==
    CASE callback[1] = "handle_submaster_result" ->
            handle_submaster_result(s, message)
      [] callback[1] = "handle_task_assignment" ->
            handle_task_assignment(s, sub_master_id(callback[2]), message)
      [] callback[1] = "handle_worker_result" ->
            handle_worker_result(s, sub_master_id(callback[2]), message)
      [] callback[1] = "handle_subtask" ->
            handle_subtask(s, worker_id(callback[2], callback[3]), message)
      [] callback[1] = "process_task" ->
            sub_master_process_task(s, sub_master_id(callback[2]), message)
      [] callback[1] = "probe_ok" -> [st |-> s, raised |-> FALSE]
      [] callback[1] = "probe_publish" ->
            \* a subscriber that answers a message on the channel it came from
            IF "echo" \in DOMAIN message
            THEN [st |-> s, raised |-> FALSE]
            ELSE publish(s, message.channel, [echo |-> TRUE])
      [] callback[1] = "probe_raise" -> [st |-> s, raised |-> TRUE]

----------------------------------------------------------------------------
(* Construction                                                            *)

\* MessageBus(), InMemoryStorage() and no agent yet
Fresh ==
    [now |-> 0, channels |-> <<>>, subscribers |-> <<>>, message_history |-> <<>>,
     calls |-> <<>>, sub_masters |-> <<>>, workers |-> <<>>, is_running |-> <<>>,
     status |-> <<>>, heartbeat_threads |-> <<>>, agent_status |-> <<>>,
     active_tasks |-> <<>>, completed_tasks |-> <<>>, sm_active_tasks |-> <<>>,
     sm_task_results |-> <<>>, validation_history |-> <<>>, storage_tasks |-> <<>>,
     checkpoints |-> <<>>]

\* WorkerAgent(worker_id) followed by worker.start()
new_worker(s, w) ==
    LET s1 == subscribe(agent_init(s, w), ch_subtasks(w),
                        Name("handle_subtask", w[2], w[3]))
    IN  agent_start(s1, w)

RECURSIVE initialize_workers(_, _, _, _)
initialize_workers(s, sm, max_workers, j) ==
    IF j > max_workers
    THEN s
    ELSE LET w == worker_id(sm[2], j)
             s1 == new_worker(s, w)
         IN  initialize_workers([s1 EXCEPT !.workers[sm] = Append(@, w)],
                                sm, max_workers, j + 1)

\* SubMasterAgent(sub_master_id, max_workers) followed by sub_master.start()
new_sub_master(s, sm, max_workers) ==
    LET s1 == [agent_init(s, sm) EXCEPT
                  !.workers = Put(@, sm, <<>>),
                  !.sm_active_tasks = Put(@, sm, <<>>),
                  !.sm_task_results = Put(@, sm, <<>>)]
        s2 == subscribe(s1, ch_tasks(sm), Name("handle_task_assignment", sm[2], 0))
        s3 == subscribe(s2, ch_worker_results, Name("handle_worker_result", sm[2], 0))
        s4 == initialize_workers(s3, sm, max_workers, 1)
    IN  agent_start(s4, sm)

RECURSIVE initialize_sub_masters(_, _, _, _)
initialize_sub_masters(s, max_submasters, max_workers, i) ==
    IF i > max_submasters
    THEN s
    ELSE LET sm == sub_master_id(i)
             s1 == new_sub_master(s, sm, max_workers)
         IN  initialize_sub_masters([s1 EXCEPT !.sub_masters = Append(@, sm)],
                                    max_submasters, max_workers, i + 1)

\* MasterAgent(agent_id, max_submasters), its sub-masters holding max_workers workers
new_master(s, max_submasters, max_workers) ==
    LET s1 == agent_init(s, master_id)
        s2 == subscribe(s1, ch_submaster_results, Name("handle_submaster_result", 0, 0))
        s3 == initialize_sub_masters(s2, max_submasters, max_workers, 1)
    IN  agent_start(agent_init(s3, residual_id), residual_id)

Assign(s) ==
    /\ now = s.now
    /\ channels = s.channels
    /\ subscribers = s.subscribers
    /\ message_history = s.message_history
    /\ calls = s.calls
    /\ sub_masters = s.sub_masters
    /\ workers = s.workers
    /\ is_running = s.is_running
    /\ run_status = s.status
    /\ heartbeat_threads = s.heartbeat_threads
    /\ agent_status = s.agent_status
    /\ active_tasks = s.active_tasks
    /\ completed_tasks = s.completed_tasks
    /\ sm_active_tasks = s.sm_active_tasks
    /\ sm_task_results = s.sm_task_results
    /\ validation_history = s.validation_history
    /\ storage_tasks = s.storage_tasks
    /\ checkpoints = s.checkpoints

NoCall == [op |-> "none"]

----------------------------------------------------------------------------
(* The bus alone, with subscribers of the environment.                     *)

MaxSubscriptions == 2
MaxMessages == 2
MaxBusTime == 1

BusChannels == {ch_task_status, ch_agent_heartbeat}
Probes == {Name("probe_ok", 0, 0), Name("probe_raise", 0, 0)}

\* the number of subscribe calls made so far
Subscriptions ==
    LET RECURSIVE Count(_)
        Count(S) == IF S = {} THEN 0
                    ELSE LET c == CHOOSE c \in S : TRUE
                         IN  Len(subscribers[c]) + Count(S \ {c})
    IN  Count(DOMAIN subscribers)

InitBus == Assign(Fresh) /\ ret = NoCall

BusSubscribe(channel, callback) ==
    /\ Subscriptions < MaxSubscriptions
    /\ Commit(subscribe(State, channel, callback))
    /\ ret' = NoCall

BusPublish(channel) ==
    /\ Len(message_history) < MaxMessages
    /\ LET r == publish(State, channel, [status |-> "probe"])
       IN  /\ Commit(r.st)
           /\ ret' = [op |-> "publish", channel |-> channel, raised |-> r.raised]

BusGetMessages(channel, since) ==
    LET r == get_messages(State, channel, since)
    IN  /\ Commit(r.st)
        /\ ret' = [op |-> "get_messages", channel |-> channel, since |-> since,
                   value |-> r.value]

BusTick ==
    /\ now < MaxBusTime
    /\ now' = now + 1
    /\ ret' = NoCall
    /\ UNCHANGED <<channels, subscribers, message_history, calls, sub_masters,
                   workers, is_running, run_status, heartbeat_threads, agent_status,
                   active_tasks, completed_tasks,
                   sm_active_tasks, sm_task_results, validation_history,
                   storage_tasks, checkpoints>>

NextBus ==
    \/ \E channel \in BusChannels, callback \in Probes : BusSubscribe(channel, callback)
    \/ \E channel \in BusChannels : BusPublish(channel)
    \/ \E channel \in BusChannels, since \in 0..MaxBusTime : BusGetMessages(channel, since)
    \/ BusTick

SpecBus == InitBus /\ [][NextBus]_vars

----------------------------------------------------------------------------
(* The bus with a subscriber that publishes while it handles a message.    *)

ReentrantProbes == {Name("probe_ok", 0, 0), Name("probe_publish", 0, 0)}

NextReentrant ==
    \/ \E channel \in BusChannels, callback \in ReentrantProbes :
           BusSubscribe(channel, callback)
    \/ \E channel \in BusChannels : BusPublish(channel)

SpecReentrant == InitBus /\ [][NextReentrant]_vars

----------------------------------------------------------------------------
(* The pipeline: a master with its sub-masters and their workers.          *)

MaxDocs == 1
MaxTasks == 3
MaxIdleSeconds == 1
MaxStopped == 1
MaxResultMessages == 2
MaxBatchDocs == 3

\* MasterAgent(agent_id, max_submasters = 2), SubMasterAgent(agent_id, max_workers = 3)
DefaultMaxSubMasters == 2
DefaultMaxWorkers == 3

\* the pools a system is built with, <<max_submasters, max_workers>>: those
\* the constructors' defaults give, and smaller ones
PoolShapes ==
    {<<1, 0>>, <<1, 1>>, <<2, 1>>, <<1, 2>>,
     <<1, DefaultMaxWorkers>>, <<DefaultMaxSubMasters, DefaultMaxWorkers>>}

\* a document: its chunk and word counts follow its kind
Document(id, poison) ==
    [id |-> id, poison |-> poison, nchunks |-> 1 + (id % 2), nwords |-> 2 + id]

\* the batches a caller may submit: documents 1..n, any of them poisoned
BatchesUpTo(max_docs) ==
    UNION {{[i \in 1..n |-> Document(i, poisoned[i])] : poisoned \in [1..n -> BOOLEAN]} :
              n \in 0..max_docs}

RECURSIVE stop_workers(_, _, _)
stop_workers(s, sm, j) ==
    IF j > Len(s.workers[sm]) THEN s
    ELSE stop_workers(agent_stop(s, s.workers[sm][j]), sm, j + 1)

\* SubMasterAgent.stop leaving the workers as they are
sub_master_stop_shallow(s, sm) == agent_stop(s, sm)

\* SubMasterAgent.stop
sub_master_stop(s, sm) == agent_stop(stop_workers(s, sm, 1), sm)

RECURSIVE stop_sub_masters(_, _)
stop_sub_masters(s, i) ==
    IF i > Len(s.sub_masters) THEN s
    ELSE stop_sub_masters(sub_master_stop(s, s.sub_masters[i]), i + 1)

\* MasterAgent.stop
master_stop(s) ==
    LET s1 == stop_sub_masters(s, 1)
        s2 == IF residual_id \in DOMAIN s1.is_running
              THEN agent_stop(s1, residual_id)
              ELSE s1
    IN  agent_stop(s2, master_id)

Stopped == {a \in DOMAIN is_running : a # master_id /\ ~is_running[a]}

Range(seq) == {seq[i] : i \in 1..Len(seq)}

\* batches of sound documents
SoundBatchesUpTo(max_docs) ==
    {[i \in 1..n |-> Document(i, FALSE)] : n \in 0..max_docs}

Init ==
    /\ \E shape \in PoolShapes : Assign(new_master(Fresh, shape[1], shape[2]))
    /\ ret = NoCall

SubmitBatch(documents) ==
    /\ Cardinality(DOMAIN storage_tasks) < MaxTasks
    /\ LET r == process_document_batch(State, documents)
       IN  /\ Commit(r.st)
           /\ ret' = [op |-> "process_document_batch", documents |-> documents,
                      value |-> r.value]

\* the first batch a system is given
FirstBatch(documents) ==
    /\ DOMAIN storage_tasks = {}
    /\ LET r == process_document_batch(State, documents)
       IN  /\ Commit(r.st)
           /\ ret' = [op |-> "process_document_batch", documents |-> documents,
                      value |-> r.value]

Tick ==
    /\ now < MaxIdleSeconds * TicksPerSecond
    /\ Commit([State EXCEPT !.now = @ + TicksPerSecond])
    /\ ret' = NoCall

StopSubMaster(sm) ==
    /\ Cardinality(Stopped) < MaxStopped
    /\ Commit(sub_master_stop(State, sm))
    /\ ret' = NoCall

StopWorker(w) ==
    /\ Cardinality(Stopped) < MaxStopped
    /\ Commit(agent_stop(State, w))
    /\ ret' = NoCall

\* a TierResult message of the result channel is published again
Redeliver(k) ==
    /\ k \in 1..Len(Get(channels, ch_submaster_results, <<>>))
    /\ Len(channels[ch_submaster_results]) < MaxResultMessages
    /\ LET message == channels[ch_submaster_results][k]
       IN  /\ Commit(publish(State, ch_submaster_results, message).st)
           /\ ret' = NoCall

\* a direct call of finalize_task
FinalizeDirect(task_id) ==
    /\ Commit(finalize_task(State, task_id))
    /\ ret' = NoCall

\* batches, duplicate results and direct finalize calls
Next ==
    \/ \E documents \in SoundBatchesUpTo(MaxDocs) : SubmitBatch(documents)
    \/ Tick
    \/ \E k \in 1..Len(Get(channels, ch_submaster_results, <<>>)) : Redeliver(k)
    \/ \E task_id \in DOMAIN active_tasks \cup DOMAIN completed_tasks :
           FinalizeDirect(task_id)

Spec == Init /\ [][Next]_vars

\* one larger batch given to a new system whose agents may have been stopped
NextBatch ==
    \/ \E documents \in BatchesUpTo(MaxBatchDocs) : FirstBatch(documents)
    \/ Tick
    \/ \E sm \in Range(sub_masters) : StopSubMaster(sm)
    \/ \E sm \in Range(sub_masters) : \E w \in Range(workers[sm]) : StopWorker(w)

SpecBatch == Init /\ [][NextBatch]_vars

\* the clock keeps running: time passes while nothing else happens
FairBatch == SpecBatch /\ WF_vars(Tick)

----------------------------------------------------------------------------
(* The lifecycle: start and stop called on the agents of a system, and the *)
(* steps of their heartbeat threads.                                       *)

MaxStarts == 1
MaxHeartbeats == 1
MaxBeatRounds == 1

Agents == DOMAIN is_running

\* agent.stop() of the agent's class
stop(s, agent_id) ==
    IF agent_id = master_id THEN master_stop(s)
    ELSE IF agent_id \in DOMAIN s.workers THEN sub_master_stop(s, agent_id)
    ELSE agent_stop(s, agent_id)

\* the agents a stop of the agent reaches: itself and the agents it created
Cascade(agent_id) ==
    IF agent_id = master_id THEN Agents
    ELSE IF agent_id \in DOMAIN workers THEN {agent_id} \cup Range(workers[agent_id])
    ELSE {agent_id}

\* a master constructed, not yet started
InitLifecycle ==
    /\ Assign(new_master(Fresh, 1, 1))
    /\ ret = NoCall

\* the heartbeat threads started so far
RECURSIVE CountThreads(_)
CountThreads(agents) ==
    IF agents = {} THEN 0
    ELSE LET a == CHOOSE x \in agents : TRUE
         IN  Len(heartbeat_threads[a]) + CountThreads(agents \ {a})

\* agent.start(), called by any caller
Start(agent_id) ==
    /\ CountThreads(Agents) < Cardinality(Agents) - 1 + MaxStarts
    /\ Commit(agent_start(State, agent_id))
    /\ ret' = [op |-> "start", agent_id |-> agent_id]

\* agent.stop(), called by any caller; repeated: every agent it reaches had
\* been stopped before
Stop(agent_id) ==
    /\ Commit(stop(State, agent_id))
    /\ ret' = [op |-> "stop", agent_id |-> agent_id, raised |-> FALSE,
               repeated |-> \A a \in Cascade(agent_id) :
                                run_status[a] = "stopped" /\ ~is_running[a]]

\* the next step of a heartbeat thread
Heartbeat(agent_id, k) ==
    LET thread == heartbeat_threads[agent_id][k]
    IN  /\ thread.pc # "done"
        /\ thread.pc = "sleep" => now >= thread.wake_at
        /\ thread.pc = "beat" => Len(message_history) < MaxHeartbeats
        /\ Commit(heartbeat_loop(State, agent_id, k))
        /\ ret' = NoCall

\* a heartbeat interval passes
Sleep ==
    /\ now < MaxBeatRounds * HeartbeatInterval
    /\ Commit([State EXCEPT !.now = @ + HeartbeatInterval])
    /\ ret' = NoCall

NextLifecycle ==
    \/ \E agent_id \in Agents : Start(agent_id)
    \/ \E agent_id \in Agents : Stop(agent_id)
    \/ \E agent_id \in Agents :
           \E k \in 1..Len(heartbeat_threads[agent_id]) : Heartbeat(agent_id, k)
    \/ Sleep

SpecLifecycle == InitLifecycle /\ [][NextLifecycle]_vars

\* start and stop alone, the heartbeat threads not running in between
NextStop ==
    \/ \E agent_id \in Agents : Start(agent_id)
    \/ \E agent_id \in Agents : Stop(agent_id)

InitStop ==
    /\ \E shape \in PoolShapes : Assign(new_master(Fresh, shape[1], shape[2]))
    /\ ret = NoCall

SpecStop == InitStop /\ [][NextStop]_vars

----------------------------------------------------------------------------
(* Batches submitted to a system whose agents are being stopped.           *)

NextRefuse ==
    \/ \E agent_id \in Agents : Stop(agent_id)
    \/ \E documents \in SoundBatchesUpTo(MaxDocs) : SubmitBatch(documents)
    \/ Tick

SpecRefuse == InitLifecycle /\ [][NextRefuse]_vars

----------------------------------------------------------------------------
(* Checkpoints written and loaded by the agents of one sub-master.  ret    *)
(* also holds the caller's notes: the number of writes made and the last   *)
(* payload each agent wrote.                                               *)

MaxCheckpointWrites == 3
MaxCheckpointHalfSeconds == 3
MaxPayload == 2

HalfSecond == TicksPerSecond \div 2

Payloads == {[progress |-> n] : n \in 1..MaxPayload}

InitCheckpoint ==
    /\ Assign(new_sub_master(Fresh, sub_master_id(1), 1))
    /\ ret = [op |-> "none", writes |-> 0, last |-> [a \in Agents |-> None]]

\* agent.create_checkpoint(data)
Checkpoint(agent_id, data) ==
    /\ ret.writes < MaxCheckpointWrites
    /\ Commit(create_checkpoint(State, agent_id, data))
    /\ ret' = [op |-> "create_checkpoint", agent_id |-> agent_id,
               writes |-> ret.writes + 1,
               last |-> [ret.last EXCEPT ![agent_id] = data]]

\* agent.load_checkpoint()
Load(agent_id) ==
    /\ Commit(State)
    /\ ret' = [op |-> "load_checkpoint", agent_id |-> agent_id,
               value |-> load_checkpoint(State, agent_id),
               writes |-> ret.writes, last |-> ret.last]

\* half a second passes
HalfTick ==
    /\ now < MaxCheckpointHalfSeconds * HalfSecond
    /\ Commit([State EXCEPT !.now = @ + HalfSecond])
    /\ UNCHANGED ret

NextCheckpoint ==
    \/ \E agent_id \in Agents : \E data \in Payloads : Checkpoint(agent_id, data)
    \/ \E agent_id \in Agents : Load(agent_id)
    \/ HalfTick

SpecCheckpoint == InitCheckpoint /\ [][NextCheckpoint]_vars

----------------------------------------------------------------------------
(* stop() step by step on a worker: the caller clears is_running and sets  *)
(* the status, then waits in heartbeat_thread.join(timeout=1), which ends  *)
(* when the latest heartbeat thread has ended or a second has passed.  ret *)
(* is the caller's position; the heartbeat threads run in between.         *)

JoinTimeout == 10

MaxJoinThreads == 2
MaxJoinBeats == 2
MaxJoinSeconds == 6

\* the caller is inside stop(), waiting in the join
InJoin == ret.op = "stop" /\ ret.pc = "join"

InitJoin ==
    /\ Assign(new_worker(Fresh, worker_id(1, 1)))
    /\ ret = NoCall

\* agent.start(), called when the caller is not inside stop()
JoinStart(agent_id) ==
    /\ ~InJoin
    /\ Len(heartbeat_threads[agent_id]) < MaxJoinThreads
    /\ Commit(agent_start(State, agent_id))
    /\ ret' = [op |-> "start", agent_id |-> agent_id]

\* stop() up to the join: is_running = False, status = "stopped"
StopCall(agent_id) ==
    /\ ~InJoin
    /\ Commit(agent_stop(State, agent_id))
    /\ ret' = [op |-> "stop", agent_id |-> agent_id, pc |-> "join", since |-> now]

\* the join ends and stop() returns
StopReturn ==
    /\ InJoin
    /\ LET threads == heartbeat_threads[ret.agent_id]
       IN  \/ Len(threads) = 0
           \/ threads[Len(threads)].pc = "done"
           \/ now >= ret.since + JoinTimeout
    /\ Commit(State)
    /\ ret' = [ret EXCEPT !.pc = "returned"]

\* the next step of a heartbeat thread, whatever the caller is doing
ThreadStep(agent_id, k) ==
    LET thread == heartbeat_threads[agent_id][k]
    IN  /\ thread.pc # "done"
        /\ thread.pc = "sleep" => now >= thread.wake_at
        /\ thread.pc = "beat" => Len(message_history) < MaxJoinBeats
        /\ Commit(heartbeat_loop(State, agent_id, k))
        /\ UNCHANGED ret

\* a second passes
Pass ==
    /\ now < MaxJoinSeconds * TicksPerSecond
    /\ Commit([State EXCEPT !.now = @ + TicksPerSecond])
    /\ UNCHANGED ret

NextJoin ==
    \/ \E agent_id \in Agents : JoinStart(agent_id)
    \/ \E agent_id \in Agents : StopCall(agent_id)
    \/ StopReturn
    \/ \E agent_id \in Agents :
           \E k \in 1..Len(heartbeat_threads[agent_id]) : ThreadStep(agent_id, k)
    \/ Pass

SpecJoin == InitJoin /\ [][NextJoin]_vars

----------------------------------------------------------------------------
(* A sub-master on its own: SubMasterAgent(agent_id, max_workers), started, *)
(* and process_task called on it directly.                                 *)

MaxDispatchDocs == 2
MaxDispatchIds == 2
MaxDispatchMessages == 3

\* the task ids a caller passes: ids of the master's form, and one whose text
\* holds "_subtask_"
DispatchIds ==
    {[kind |-> "task", a |-> 0, b |-> k] : k \in 0..(MaxDispatchIds - 2)}
        \cup {[kind |-> "task_subtask", a |-> 0, b |-> 0]}

\* the sub-masters constructed so far
SubMasters == DOMAIN workers

InitDispatch ==
    /\ \E max_workers \in 0..DefaultMaxWorkers :
           Assign(new_sub_master(Fresh, sub_master_id(1), max_workers))
    /\ ret = NoCall

\* sub_master.process_task(task_data), called by any caller
Dispatch(sm, task_id, document_chunk) ==
    /\ Len(message_history) < MaxDispatchMessages
    /\ LET task_data == [task_id |-> task_id, document_chunk |-> document_chunk,
                         chunk_id |-> 0]
           r == Call(<<"process_task", sm[2]>>, State, task_data)
       IN  /\ Commit(r.st)
           /\ ret' = [op |-> "process_task", sm |-> sm, task_id |-> task_id,
                      document_chunk |-> document_chunk, raised |-> r.raised,
                      error |-> IF r.raised THEN "ZeroDivisionError" ELSE "none",
                      value |-> IF r.raised THEN <<>> ELSE r.value]

NextDispatch ==
    \/ \E sm \in SubMasters : \E task_id \in DispatchIds :
           \E document_chunk \in BatchesUpTo(MaxDispatchDocs) :
               Dispatch(sm, task_id, document_chunk)
    \/ Tick
    \/ \E sm \in SubMasters : \E w \in Range(workers[sm]) : StopWorker(w)

SpecDispatch == InitDispatch /\ [][NextDispatch]_vars

\* two sub-masters on the one message bus, the first with or without workers
InitTiers ==
    /\ \E max_workers \in 0..1 :
           Assign(new_sub_master(new_sub_master(Fresh, sub_master_id(1), max_workers),
                                 sub_master_id(2), 1))
    /\ ret = NoCall

\* slices of at most one document, dispatched to either sub-master
NextTiers ==
    \/ \E sm \in SubMasters : \E task_id \in DispatchIds :
           \E document_chunk \in BatchesUpTo(1) :
               Dispatch(sm, task_id, document_chunk)
    \/ Tick

SpecTiers == InitTiers /\ [][NextTiers]_vars

----------------------------------------------------------------------------
(* split_documents and aggregate_results called on their own.              *)

MaxSplitPool == 4
MaxSplitDocs == 12
MaxTierResults == 2
MaxTierDocs == 2

\* everything but ret
pipeline_vars ==
    <<now, channels, subscribers, message_history, calls, sub_masters, workers,
      is_running, run_status, heartbeat_threads, agent_status, active_tasks,
      completed_tasks, sm_active_tasks, sm_task_results,
      validation_history, storage_tasks, checkpoints>>

\* a master of any pool size and the documents it is about to split
InitSplit ==
    /\ \E max_submasters \in 1..MaxSplitPool : Assign(new_master(Fresh, max_submasters, 0))
    /\ \E documents \in SoundBatchesUpTo(MaxSplitDocs) :
           ret = [op |-> "input", documents |-> documents]

SplitCall ==
    /\ ret.op = "input"
    /\ ret' = [op |-> "split_documents", documents |-> ret.documents,
               value |-> split_documents(ret.documents, Len(sub_masters))]
    /\ UNCHANGED pipeline_vars

NextSplit == SplitCall

SpecSplit == InitSplit /\ [][NextSplit]_vars

\* a master of any pool size, its sub-masters holding one worker each, and the
\* batch it is about to be given
InitDistribute ==
    /\ \E max_submasters \in 1..MaxSplitPool : Assign(new_master(Fresh, max_submasters, 1))
    /\ \E documents \in SoundBatchesUpTo(MaxSplitDocs) :
           ret = [op |-> "input", documents |-> documents]

\* master.process_document_batch(documents)
Distribute ==
    /\ ret.op = "input"
    /\ LET r == process_document_batch(State, ret.documents)
       IN  /\ Commit(r.st)
           /\ ret' = [op |-> "process_document_batch", documents |-> ret.documents,
                      value |-> r.value]

NextDistribute == Distribute

SpecDistribute == InitDistribute /\ [][NextDistribute]_vars

\* the results a sub-master can report: tallies, or compile_results' error value
TierResultSamples ==
    {[total_documents |-> n, successful_documents |-> ok,
      total_chunks_processed |-> 2 * ok, total_words_processed |-> 3 * ok] :
          n \in 0..MaxTierDocs, ok \in 0..MaxTierDocs}
        \cup {[error |-> "Task not found"]}

TierResultLists ==
    UNION {[1..n -> TierResultSamples] : n \in 0..MaxTierResults}

\* a master and the results it is about to reduce
InitAggregate ==
    /\ Assign(new_master(Fresh, 1, 1))
    /\ \E sub_master_results \in TierResultLists :
           ret = [op |-> "input", sub_master_results |-> sub_master_results]

AggregateCall ==
    /\ ret.op = "input"
    /\ ret' = [op |-> "aggregate_results", sub_master_results |-> ret.sub_master_results,
               value |-> aggregate_results(ret.sub_master_results)]
    /\ UNCHANGED pipeline_vars

NextAggregate == AggregateCall

SpecAggregate == InitAggregate /\ [][NextAggregate]_vars

----------------------------------------------------------------------------
(* validate_results called on its own.                                     *)

MaxValidateResults == 2

\* a result of a worker that processed its document
SoundUnitResult ==
    [subtask_id |-> SubtaskId([kind |-> "task", a |-> 0, b |-> 0], 0, 0),
     document_id |-> 1, status |-> "completed", chunks_processed |-> 1,
     total_words |-> 3, processing_time |-> MinWorkerTime, worker_id |-> worker_id(1, 1)]

\* what compile_results returns for one document processed in time
SoundTierResult ==
    [task_id |-> [kind |-> "task", a |-> 0, b |-> 0],
     sub_master_id |-> sub_master_id(1),
     total_documents |-> 1, successful_documents |-> 1,
     total_chunks_processed |-> 1, total_words_processed |-> 3,
     processing_time |-> WorkerLatency,
     worker_results |-> <<SoundUnitResult>>]

\* the record r without the field
Without(r, field) == [f \in DOMAIN r \ {field} |-> r[f]]

\* the results handed to the validator: a sound one, one compiled when no
\* worker answered before the deadline, compile_results' error value, and
\* results without a field or with a value the validator refuses
ValidatorSamples ==
    {SoundTierResult,
     [SoundTierResult EXCEPT !.successful_documents = 0, !.worker_results = <<>>,
                             !.total_chunks_processed = 0, !.total_words_processed = 0,
                             !.processing_time = WaitTimeout],
     [error |-> "Task not found"],
     Without(SoundTierResult, "task_id"),
     Without(SoundTierResult, "worker_results"),
     [SoundTierResult EXCEPT !.worker_results = <<>>],
     [SoundTierResult EXCEPT !.successful_documents = 0],
     [SoundTierResult EXCEPT !.processing_time = 0],
     [SoundTierResult EXCEPT !.processing_time = MaxProcessingTime + 1],
     [SoundTierResult EXCEPT !.worker_results =
         <<[SoundUnitResult EXCEPT !.status = "failed"]>>]}

InitValidate ==
    /\ Assign(new_master(Fresh, 1, 1))
    /\ \E task_results \in UNION {[1..n -> ValidatorSamples] : n \in 0..MaxValidateResults} :
           ret = [op |-> "input", task_results |-> task_results]

ValidateCall ==
    /\ ret.op = "input"
    /\ LET r == validate_results(State, ret.task_results)
       IN  /\ Commit(r.st)
           /\ ret' = [op |-> "validate_results", task_results |-> ret.task_results,
                      value |-> r.value]

NextValidate == ValidateCall

SpecValidate == InitValidate /\ [][NextValidate]_vars

----------------------------------------------------------------------------
(* Properties of the bus                                                   *)

\* the callbacks invoked for the message at position index of message_history
CallbacksOf(trace, index) ==
    LET picked == SelectSeq(trace, LAMBDA c : c.index = index)
    IN  [i \in 1..Len(picked) |-> picked[i].callback]

\* C8: each publish invokes every handler subscribed to the channel at the
\* time of the publish exactly once, in subscription order, and no handler
\* of another channel; a step invokes callbacks only for the messages it
\* published.
C8_PublishCallsSubscribersInOrder ==
    [][/\ \A k \in (Len(message_history) + 1)..Len(message_history') :
              CallbacksOf(calls', k) =
                  Get(subscribers, message_history'[k].channel, <<>>)
       /\ SubSeq(calls', 1, Len(calls)) = calls
       /\ \A i \in (Len(calls) + 1)..Len(calls') :
              calls'[i].index > Len(message_history)]_vars

\* two subscribers of one channel were called for a message, and a message
\* published to another channel reached neither of them
C8_Witness ==
    \E k, n \in 1..Len(message_history) :
        /\ Len(CallbacksOf(calls, k)) >= 2
        /\ message_history[n].channel # message_history[k].channel
        /\ Len(CallbacksOf(calls, n)) = 0
        /\ Len(subscribers[message_history[k].channel]) >= 2

\* C9: get_messages returns exactly the messages of the channel whose
\* timestamp is strictly greater than since, in publish order.
C9_HistoryStrictlyAfterSince ==
    ret.op = "get_messages" =>
        LET history == channels[ret.channel]
            kept == {k \in 1..Len(history) : history[k].timestamp > ret.since}
            Nth(i) == CHOOSE k \in kept : Cardinality({j \in kept : j < k}) = i - 1
        IN  /\ Len(ret.value) = Cardinality(kept)
            /\ \A i \in 1..Len(ret.value) :
                   /\ ret.value[i] = history[Nth(i)]
                   /\ ret.value[i].timestamp > ret.since

\* a message stamped exactly since was left out and a later one returned
C9_Witness ==
    /\ ret.op = "get_messages"
    /\ Len(ret.value) = 1
    /\ \E k \in 1..Len(channels[ret.channel]) :
           channels[ret.channel][k].timestamp = ret.since

\* C10: when a subscriber callback fails during publish, the subscribers
\* registered after it on the channel are still called, the message stays in
\* the channel history and publish returns without raising.
C10_FailingSubscriberIsIsolated ==
    ret.op = "publish" =>
        LET k == Len(message_history)
            registered == subscribers[ret.channel]
            called == CallbacksOf(calls, k)
        IN  /\ ~ret.raised
            /\ channels[ret.channel][Len(channels[ret.channel])] = message_history[k]
            /\ \A i \in 1..Len(registered) :
                   registered[i][1] = "probe_raise" =>
                       \A j \in (i + 1)..Len(registered) :
                           /\ Len(called) >= j
                           /\ called[j] = registered[j]

\* a publish whose first subscriber raised and whose second was still called
C10_Witness ==
    /\ ret.op = "publish"
    /\ Len(subscribers[ret.channel]) >= 2
    /\ subscribers[ret.channel][1][1] = "probe_raise"
    /\ subscribers[ret.channel][2][1] = "probe_ok"
    /\ Len(CallbacksOf(calls, Len(message_history))) >= 2

----------------------------------------------------------------------------
(* Properties of the coordinator                                           *)

\* the completion events the master has published
CompletionEvents ==
    SelectSeq(Get(channels, ch_task_status, <<>>),
              LAMBDA m : m.status = "master_completed")

\* C1: once a task is finalized, a further TierResult message for its id and
\* a further direct call of finalize leave completed_tasks, active_tasks and
\* the published completion events unchanged.
C1_FinalizeAtMostOnce ==
    [][\A task_id \in DOMAIN completed_tasks :
           (\/ FinalizeDirect(task_id)
            \/ \E k \in 1..Len(Get(channels, ch_submaster_results, <<>>)) :
                   /\ channels[ch_submaster_results][k].task_id = task_id
                   /\ Redeliver(k))
           => /\ completed_tasks' = completed_tasks
              /\ active_tasks' = active_tasks
              /\ CompletionEvents' = CompletionEvents]_vars

\* C2: a task every sub-master was sent an assignment for leaves the active
\* set with a report, also when a sub-master never publishes its TierResult.
AllAssigned ==
    \A sm \in Range(sub_masters) : Len(Get(channels, ch_tasks(sm), <<>>)) > 0

C2_StuckTaskIsFinalized ==
    (DOMAIN active_tasks # {} /\ AllAssigned)
        ~> (DOMAIN active_tasks = {} /\ DOMAIN completed_tasks # {})

\* the assignments published for a task
AssignmentsOf(task_id) ==
    SelectSeq(message_history,
              LAMBDA m : m.channel[1] = "tasks" /\ m.task_data.task_id = task_id)

\* C3: the number of TierResults the master requires before it finalizes a
\* task equals the number of assignments it published for the task.
C3_ExpectedEqualsPublished ==
    \A task_id \in DOMAIN active_tasks :
        Len(sub_masters) = Len(AssignmentsOf(task_id))

\* the sizes of the groups split_documents returned
GroupSizes == {Len(ret.value[i]) : i \in 1..Len(ret.value)}

RECURSIVE SumLen(_)
SumLen(groups) == IF Len(groups) = 0 THEN 0 ELSE Len(Head(groups)) + SumLen(Tail(groups))

\* C4: the sizes of the groups sum to the number of documents and any two
\* differ by at most 1 (an absent group has size 0).
C4_GroupsBalanced ==
    ret.op = "split_documents" =>
        /\ SumLen(ret.value) = Len(ret.documents)
        /\ \A a, b \in GroupSizes \cup
                       (IF Len(ret.value) < Len(sub_masters) THEN {0} ELSE {}) :
               a - b <= 1

\* the sum of a field over the results, missing fields counting 0
TotalOf(results, field) ==
    LET Partial[k \in 0..Len(results)] ==
            IF k = 0 THEN 0
            ELSE Partial[k - 1]
                   + (IF field \in DOMAIN results[k] THEN results[k][field] ELSE 0)
    IN  Partial[Len(results)]

\* C5: the totals of the final report are the sums of the TierResult fields,
\* failed = total - successful, and success_rate = successful / total, or 0
\* when total is 0.
C5_ReductionIsExact ==
    ret.op = "aggregate_results" =>
        LET results == ret.sub_master_results
            report == ret.value
            total == TotalOf(results, "total_documents")
            successful == TotalOf(results, "successful_documents")
        IN  /\ report.total_documents_processed = total
            /\ report.successful_documents = successful
            /\ report.total_chunks_processed = TotalOf(results, "total_chunks_processed")
            /\ report.total_words_processed = TotalOf(results, "total_words_processed")
            /\ report.failed_documents = total - successful
            /\ report.success_rate.den > 0
            /\ IF total > 0
               THEN report.success_rate.num * total = successful * report.success_rate.den
               ELSE report.success_rate.num = 0

\* two results with different tallies, one of them without the fields
C5_Witness ==
    /\ ret.op = "aggregate_results"
    /\ Len(ret.sub_master_results) = 2
    /\ ret.value.total_documents_processed = 2
    /\ ret.value.successful_documents = 1
    /\ ret.value.total_chunks_processed = 2
    /\ \E k \in 1..2 : "error" \in DOMAIN ret.sub_master_results[k]

\* every agent is running and no document of the batch is poisoned
AllSucceed ==
    /\ \A a \in DOMAIN is_running : a # master_id => is_running[a]
    /\ \A i \in 1..Len(ret.documents) : ~ret.documents[i].poison

One == [num |-> 1, den |-> 1]

\* C6: 3 documents given to a master with 1 sub-master and 1 worker (or the
\* 3 workers a sub-master has by default), every unit succeeding, end with
\* get_task_status reporting completed, 3 documents processed, none failed
\* and a quality score of 1.0.
C6_EndToEnd ==
    (/\ ret.op = "process_document_batch"
     /\ Len(ret.documents) = 3
     /\ Len(sub_masters) = 1
     /\ Len(workers[sub_masters[1]]) \in {1, DefaultMaxWorkers}
     /\ AllSucceed)
    => LET status == get_task_status(State, ret.value)
       IN  /\ status.status = "completed"
           /\ status.result.total_documents_processed = 3
           /\ status.result.failed_documents = 0
           /\ status.result.validation.quality_score = One

C6_Witness ==
    /\ ret.op = "process_document_batch"
    /\ Len(ret.documents) = 3
    /\ Len(sub_masters) = 1
    /\ Len(workers[sub_masters[1]]) = 1
    /\ AllSucceed
    /\ get_task_status(State, ret.value).status = "completed"

----------------------------------------------------------------------------
(* Properties of the sub-master                                            *)

\* the worker document i (0-based) of a slice goes to
WorkerOf(sm, i) == workers[sm][(i % Len(workers[sm])) + 1]

\* the workers a dispatch sent documents to, and those no result came from
DispatchedTo(sm, slice) == {WorkerOf(sm, i) : i \in 0..(Len(slice) - 1)}

Silent(sm, slice, result) ==
    {w \in DispatchedTo(sm, slice) :
        \A k \in 1..Len(result.worker_results) : result.worker_results[k].worker_id # w}

DocsOf(sm, slice, ws) == {i \in 0..(Len(slice) - 1) : WorkerOf(sm, i) \in ws}

\* exactly one worker of the dispatch published nothing; the others were
\* running and their documents sound
OneSilentWorker(sm, slice, result) ==
    /\ Cardinality(Silent(sm, slice, result)) = 1
    /\ \A i \in 0..(Len(slice) - 1) :
           WorkerOf(sm, i) \notin Silent(sm, slice, result) => ~slice[i + 1].poison

\* the dispatches made so far: a tasks_ message whose sub-master compiled a result
Dispatches ==
    {<<sm, m>> \in UNION {{sm} \X Range(Get(channels, ch_tasks(sm), <<>>)) :
                             sm \in Range(sub_masters)} :
        m.task_data.task_id \in DOMAIN sm_task_results[sm]}

----------------------------------------------------------------------------
(* Properties of the worker                                                *)

\* the results published on the worker result channel
UnitResults ==
    {m.result : m \in Range(Get(channels, ch_worker_results, <<>>))}

\* C11: a failure of a worker leaves a checkpoint with the subtask id, the
\* document id, the error and retry_count + 1, and a result with status
\* "failed" for that subtask on the worker result channel and in the
\* sub-master's worker_results.
C11_FailureIsReportedAsResult ==
    \A c \in DOMAIN checkpoints :
        LET data == checkpoints[c].checkpoint_data
        IN  /\ DOMAIN data = {"subtask_id", "document_id", "error", "retry_count"}
            /\ data.retry_count = 1
            /\ \E r \in UnitResults :
                   r.subtask_id = data.subtask_id /\ r.status = "failed"
            /\ \E sm \in Range(sub_masters) :
                   \E task_id \in DOMAIN sm_task_results[sm] :
                       \E r \in Range(sm_task_results[sm][task_id].worker_results) :
                           r.subtask_id = data.subtask_id /\ r.status = "failed"

\* C12: process_task called for a task id that is still in the sub-master's
\* active_tasks is rejected with a conflicting-task error and leaves the
\* tracking state of the first dispatch unchanged.
C12_SecondDispatchRejected ==
    [][\A sm \in SubMasters : \A task_id \in DOMAIN sm_active_tasks[sm] :
           (ret'.op = "process_task" /\ ret'.sm = sm /\ ret'.task_id = task_id)
           => /\ ret'.raised
              /\ ret'.error = "ConflictingTask"
              /\ task_id \in DOMAIN sm_active_tasks'[sm]
              /\ sm_active_tasks'[sm][task_id] = sm_active_tasks[sm][task_id]]_vars

----------------------------------------------------------------------------
(* Properties of the validator                                             *)

\* the reasons of the anomalies the report holds for the result at position k:
\* the anomalies are in the order of the failing results
ReasonsFor(k) ==
    LET failing == {j \in 1..Len(ret.task_results) :
                        ~validate_single_result(ret.task_results[j])}
        position == Cardinality({j \in failing : j <= k})
    IN  IF k \in failing /\ position <= Len(ret.value.anomalies)
        THEN {ret.value.anomalies[position].reason}
        ELSE {}

\* C13: a result without worker_results, or with an empty list, is flagged
\* "No worker results", and one whose successful_documents is 0 is flagged
\* "No successful documents processed".
C13_ReasonsNameTheDefect ==
    ret.op = "validate_results" =>
        \A k \in 1..Len(ret.task_results) :
            LET result == ret.task_results[k]
            IN  /\ ("task_id" \in DOMAIN result
                      /\ Len(Get(result, "worker_results", <<>>)) = 0)
                   => "No worker results" \in ReasonsFor(k)
                /\ ("task_id" \in DOMAIN result
                      /\ "successful_documents" \in DOMAIN result
                      /\ result.successful_documents = 0)
                   => "No successful documents processed" \in ReasonsFor(k)

\* C14: validate_results audits every element once: successful + failed =
\* total_results = length of the input, one anomaly per failed result, and
\* quality_score = successful / total_results, or 0 for an empty input.
C14_EveryResultAudited ==
    ret.op = "validate_results" =>
        LET report == ret.value
        IN  /\ report.total_results = Len(ret.task_results)
            /\ report.successful + report.failed = report.total_results
            /\ report.successful =
                   Cardinality({k \in 1..Len(ret.task_results) :
                                    validate_single_result(ret.task_results[k])})
            /\ Len(report.anomalies) = report.failed
            /\ report.quality_score.den > 0
            /\ IF report.total_results > 0
               THEN report.quality_score.num * report.total_results
                        = report.successful * report.quality_score.den
               ELSE report.quality_score.num = 0
            /\ validation_history[Len(validation_history)] = report

\* a failing result followed by a sound one, both counted
C14_Witness ==
    /\ ret.op = "validate_results"
    /\ Len(ret.task_results) = 2
    /\ ~validate_single_result(ret.task_results[1])
    /\ validate_single_result(ret.task_results[2])
    /\ ret.value.successful = 1
    /\ ret.value.failed = 1
    /\ ret.value.quality_score = [num |-> 1, den |-> 2]

----------------------------------------------------------------------------
(* Properties of the task ids and of get_task_status                       *)

\* the ids process_document_batch has returned: each is put into
\* active_tasks and leaves it only for completed_tasks
IssuedIds == DOMAIN active_tasks \cup DOMAIN completed_tasks

\* ids of the shapes the program handles that no call has returned
UnissuedIds ==
    ({[kind |-> "task", a |-> a, b |-> b] : a \in 0..MaxIdleSeconds, b \in 0..MaxTasks}
        \cup DOMAIN storage_tasks) \ IssuedIds

\* the step published a completion event for the task
CompletedInStep(task_id) ==
    \E k \in (Len(CompletionEvents) + 1)..Len(CompletionEvents') :
        CompletionEvents'[k].task_id = task_id

\* C15: the status of a task id process_document_batch returned is
\* "processing" with the task's progress until the task is finalized and
\* "completed" from then on, and the status of an id never returned is
\* "not_found".
C15_StatusFollowsTask ==
    [][/\ ret'.op = "process_document_batch" =>
             LET status == get_task_status(State', ret'.value)
             IN  IF CompletedInStep(ret'.value)
                 THEN /\ status.status = "completed"
                      /\ status.result = completed_tasks'[ret'.value]
                 ELSE /\ status.status = "processing"
                      /\ status.progress.total_docs = Len(ret'.documents)
       /\ \A task_id \in IssuedIds :
              LET status == get_task_status(State', task_id)
              IN  /\ status.status \in {"processing", "completed"}
                  /\ get_task_status(State, task_id).status = "completed"
                         => status.status = "completed"
       /\ \A task_id \in UnissuedIds :
              get_task_status(State, task_id).status = "not_found"]_vars

\* C16: process_document_batch returns an id no earlier call returned.
C16_TaskIdsAreFresh ==
    [][ret'.op = "process_document_batch" => ret'.value \notin IssuedIds]_vars

\* C17: an active task holds at most as many TierResults as the master
\* expects, and while it stays active it loses none.
C17_ResultsBoundedAndKept ==
    [][/\ \A task_id \in DOMAIN active_tasks :
              Len(active_tasks[task_id].sub_master_results) <= Len(sub_masters)
       /\ \A task_id \in DOMAIN active_tasks \cap DOMAIN active_tasks' :
              Len(active_tasks'[task_id].sub_master_results)
                  >= Len(active_tasks[task_id].sub_master_results)]_vars

----------------------------------------------------------------------------
(* Properties of the TierResult                                            *)

\* C18: a TierResult holds at most one worker result per document the
\* sub-master dispatched for the task, and exactly one per document when the
\* wait ended before the deadline.
C18_ResultsWithinDispatched ==
    \A d \in Dispatches :
        LET slice == d[2].task_data.document_chunk
            result == sm_task_results[d[1]][d[2].task_data.task_id]
        IN  /\ result.total_documents = Len(slice)
            /\ Len(result.worker_results) <= result.total_documents
            /\ result.processing_time < WaitTimeout
                   => Len(result.worker_results) = result.total_documents

\* a sub-master compiled two documents in time, and one compiled after the
\* deadline with a result missing
C18_Witness ==
    /\ \E d \in Dispatches :
           LET result == sm_task_results[d[1]][d[2].task_data.task_id]
           IN  /\ result.total_documents >= 2
               /\ result.processing_time >= WaitTimeout
               /\ Len(result.worker_results) = result.total_documents - 1
    /\ \E d \in Dispatches :
           LET result == sm_task_results[d[1]][d[2].task_data.task_id]
           IN  /\ result.total_documents >= 1
               /\ result.processing_time < WaitTimeout
               /\ Len(result.worker_results) = result.total_documents

----------------------------------------------------------------------------
(* Properties of the lifecycle                                             *)

\* C19: the status of an agent moves only from initializing to running to
\* stopped; a stopped agent stays stopped and gets no further heartbeat
\* thread.
C19_StoppedIsTerminal ==
    [][\A agent_id \in Agents :
           /\ run_status[agent_id] = "running"
                  => run_status'[agent_id] \in {"running", "stopped"}
           /\ run_status[agent_id] = "stopped"
                  => /\ run_status'[agent_id] = "stopped"
                     /\ ~is_running'[agent_id]
                     /\ Len(heartbeat_threads'[agent_id])
                            = Len(heartbeat_threads[agent_id])]_vars

\* the agent is stopped
IsStopped(agent_id) == run_status[agent_id] = "stopped" /\ ~is_running[agent_id]

\* C20: stop does not fail and leaves the agent and the agents it created
\* stopped, whatever state they were in; a stop of agents that are all
\* stopped already changes nothing.
C20_StopIsIdempotent ==
    [][\A agent_id \in Agents :
           (ret'.op = "stop" /\ ret'.agent_id = agent_id)
           => /\ ~ret'.raised
              /\ \A a \in Cascade(agent_id) :
                     run_status'[a] = "stopped" /\ ~is_running'[a]
              /\ (\A a \in Cascade(agent_id) : IsStopped(a))
                     => /\ run_status' = run_status
                        /\ is_running' = is_running
                        /\ heartbeat_threads' = heartbeat_threads
                        /\ agent_status' = agent_status
                        /\ message_history' = message_history]_vars

\* the master, never started, and its agents are stopped by a second stop
\* of the master
C20_Witness ==
    /\ ret.op = "stop"
    /\ ret.agent_id = master_id
    /\ ret.repeated
    /\ Len(heartbeat_threads[master_id]) = 0
    /\ Cardinality(Agents) > 2
    /\ \A a \in Agents : IsStopped(a)


\* C21: once stop() has returned on an agent, no step publishes a heartbeat of
\* that agent or writes its record in agent_status, however the heartbeat
\* threads and the caller of stop() interleave.
C21_NoHeartbeatAfterStop ==
    [][(ret.op = "stop" /\ ret.pc = "returned")
           => /\ message_history' = message_history
              /\ Get(channels', ch_agent_heartbeat, <<>>)
                     = Get(channels, ch_agent_heartbeat, <<>>)
              /\ agent_status' = agent_status]_vars


\* the messages an agent has published for tasks: a master's assignments, a
\* sub-master's assignments, results and status events, a worker's results and
\* status events
Published(agent_id) ==
    SelectSeq(message_history,
              LAMBDA m :
                  \/ m.channel[1] = "tasks" /\ agent_id = master_id
                  \/ m.channel[1] = "subtasks" /\ agent_id = sub_master_id(m.channel[2])
                  \/ m.channel = ch_submaster_results /\ m.sub_master_id = agent_id
                  \/ m.channel = ch_worker_results /\ m.worker_id = agent_id
                  \/ m.channel = ch_task_status /\ m.agent_id = agent_id)

\* C22: a stopped agent of any tier publishes no assignment, result or status
\* event from then on, and a stopped master's process_document_batch adds no
\* active task.
C22_StoppedTiersRefuse ==
    [][\A agent_id \in Agents :
           run_status[agent_id] = "stopped"
           => /\ Published(agent_id)' = Published(agent_id)
              /\ agent_id = master_id => active_tasks' = active_tasks]_vars


----------------------------------------------------------------------------
(* Properties of the checkpoints                                           *)

\* C23: load_checkpoint of an agent returns the payload of the last
\* checkpoint that agent wrote, or None when it wrote none, and leaves the
\* stored checkpoints as they were.
C23_LoadReturnsOwnLatest ==
    [][ret'.op = "load_checkpoint"
           => /\ ret'.value = ret.last[ret'.agent_id]
              /\ checkpoints' = checkpoints]_vars

\* a load returned an agent's latest payload while an older checkpoint of
\* its own and a later checkpoint of another agent, both with another
\* payload, were stored
C23_Witness ==
    /\ ret.op = "load_checkpoint"
    /\ ret.value \in Payloads
    /\ \E k \in DOMAIN checkpoints :
           /\ checkpoints[k].agent_id = ret.agent_id
           /\ checkpoints[k].checkpoint_data # ret.value
    /\ \E k \in DOMAIN checkpoints :
           /\ checkpoints[k].agent_id # ret.agent_id
           /\ checkpoints[k].checkpoint_data # ret.value
           /\ \A j \in DOMAIN checkpoints :
                  checkpoints[j].created_at <= checkpoints[k].created_at


----------------------------------------------------------------------------
(* Properties of the stored task records                                   *)

\* the position of a status on the path of a task record
StatusRank(status) ==
    CASE status = "pending" -> 0
      [] status = "distributed" -> 1
      [] status = "processing" -> 2
      [] OTHER -> 3

\* the stored records that have reached a terminal status
CompletedRecords == {k \in DOMAIN storage_tasks : storage_tasks[k].status = "completed"}

\* C24: once process_document_batch has returned, the stored record of the
\* task is past "pending"; there is a completed record for every task the
\* master has finalized; and no step moves a record back on the path
\* pending, distributed, processing, terminal.
C24_RecordStatusAdvances ==
    [][/\ \A k \in DOMAIN storage_tasks' :
              /\ StatusRank(storage_tasks'[k].status) >= 1
              /\ k \in DOMAIN storage_tasks
                     => StatusRank(storage_tasks'[k].status)
                            >= StatusRank(storage_tasks[k].status)
       /\ Cardinality(CompletedRecords') >= Cardinality(DOMAIN completed_tasks')]_vars


----------------------------------------------------------------------------
(* Properties of the bus under reentrant publishes                         *)

\* C25: a subscriber is called for the messages of a channel in the order in
\* which they were published (their order in message_history), also when a
\* publish is made from inside a callback.
C25_DeliveryInPublishOrder ==
    \A i, j \in 1..Len(calls) :
        (/\ i < j
         /\ calls[i].callback = calls[j].callback
         /\ message_history[calls[i].index].channel
                = message_history[calls[j].index].channel)
        => calls[i].index <= calls[j].index


\* C26: get_messages leaves the bus as it was: the channels and their
\* histories, the subscriber lists and the message history.
C26_GetMessagesIsPureRead ==
    [][ret'.op = "get_messages"
           => /\ DOMAIN channels' = DOMAIN channels
              /\ channels' = channels
              /\ subscribers' = subscribers
              /\ message_history' = message_history]_vars


----------------------------------------------------------------------------
(* Properties of the sub-master's report                                   *)

\* the positions in message_history of the TierResults of a sub-master for a task
TierResultsAt(sm, task_id) ==
    {k \in 1..Len(message_history) :
        /\ message_history[k].channel = ch_submaster_results
        /\ message_history[k].sub_master_id = sm
        /\ message_history[k].task_id = task_id}

\* C27: a sub-master that reports submaster_completed for a task has
\* published exactly one TierResult for it, and published it before the
\* status event.
C27_ResultBeforeStatus ==
    \A j \in 1..Len(message_history) :
        LET m == message_history[j]
        IN  (m.channel = ch_task_status /\ m.status = "submaster_completed")
            => /\ Cardinality(TierResultsAt(m.agent_id, m.task_id)) = 1
               /\ \A k \in TierResultsAt(m.agent_id, m.task_id) : k < j


\* C28: when a batch is submitted, every running sub-master with workers
\* sends each document of its slice to the worker of its turn, also after a
\* document failed, publishes one TierResult for the task, and that
\* TierResult holds every result the workers published for the slice.
C28_FailureDoesNotAbortDispatch ==
    [][ret'.op = "process_document_batch"
           => \A sm \in Range(sub_masters) :
                  (is_running[sm] /\ Len(workers[sm]) > 0)
                  => \A m \in Range(Get(channels', ch_tasks(sm), <<>>)) :
                         LET slice == m.task_data.document_chunk
                             task_id == m.task_data.task_id
                             chunk_id == m.task_data.chunk_id
                         IN  /\ \A i \in 0..(Len(slice) - 1) :
                                    \E a \in Range(Get(channels',
                                                       ch_subtasks(WorkerOf(sm, i)), <<>>)) :
                                        /\ a.subtask_data.subtask_id
                                               = SubtaskId(task_id, chunk_id, i)
                                        /\ a.subtask_data.document = slice[i + 1]
                             /\ Cardinality(TierResultsAt(sm, task_id)') = 1
                             /\ \A k \in TierResultsAt(sm, task_id)' :
                                    \A u \in UnitResults' :
                                        (/\ u.subtask_id.task_id = task_id
                                         /\ u.subtask_id.chunk_id = chunk_id)
                                        => u \in Range(message_history'[k].result
                                                          .worker_results)]_vars

\* the first document of a slice of three failed, leaving a checkpoint, and
\* the TierResult of the slice holds the results of the other two
C28_Witness ==
    /\ ret.op = "process_document_batch"
    /\ \E c \in DOMAIN checkpoints : checkpoints[c].checkpoint_data.subtask_id.i = 0
    /\ \E sm \in Range(sub_masters) :
           \E m \in Range(Get(channels, ch_tasks(sm), <<>>)) :
               /\ Len(m.task_data.document_chunk) = 3
               /\ m.task_data.document_chunk[1].poison
               /\ \E k \in TierResultsAt(sm, m.task_data.task_id) :
                      Len(message_history[k].result.worker_results) = 2


\* the fields compile_results gives a TierResult
CompiledFields ==
    {"task_id", "sub_master_id", "total_documents", "successful_documents",
     "total_chunks_processed", "total_words_processed", "processing_time",
     "worker_results"}

\* the TierResult carries a flag: a field beyond the compiled ones that is set
Flagged(result) == \E f \in DOMAIN result \ CompiledFields : result[f] = TRUE

\* C29: a TierResult compiled with fewer worker results than documents
\* dispatched carries a shortfall flag, and one compiled with all of them
\* carries none.
C29_ShortfallIsFlagged ==
    \A d \in Dispatches :
        LET result == sm_task_results[d[1]][d[2].task_data.task_id]
        IN  Flagged(result) <=> Len(result.worker_results) < result.total_documents


----------------------------------------------------------------------------
(* Properties of the validator's verdict                                   *)

\* the structural checks on a worker result: completed, with chunks processed
SoundUnit(worker_result) ==
    /\ {"document_id", "status", "chunks_processed", "worker_id"}
           \subseteq DOMAIN worker_result
    /\ worker_result.status = "completed"
    /\ worker_result.chunks_processed > 0

\* the structural checks on a TierResult: the required fields, successful
\* documents, worker results, each of them sound
StructurallySound(result) ==
    /\ {"task_id", "sub_master_id", "total_documents", "successful_documents"}
           \subseteq DOMAIN result
    /\ result.successful_documents > 0
    /\ "worker_results" \in DOMAIN result
    /\ Len(result.worker_results) > 0
    /\ \A k \in 1..Len(result.worker_results) : SoundUnit(result.worker_results[k])

\* C30: validate_results counts as successful exactly the results that pass
\* the structural checks, whatever their other attributes are.
C30_VerdictIsStructural ==
    ret.op = "validate_results" =>
        ret.value.successful =
            Cardinality({k \in 1..Len(ret.task_results) :
                            StructurallySound(ret.task_results[k])})

----------------------------------------------------------------------------
(* Properties of one dispatch of a slice                                   *)

\* the worker assignments a step publishes, in the order of publication
NewAssignments ==
    SelectSeq(SubSeq(message_history', Len(message_history) + 1, Len(message_history')),
              LAMBDA m : "subtask_data" \in DOMAIN m)

\* C31: in one dispatch of a slice the sub-master sends document i to
\* worker[i mod poolSize], sends exactly one assignment per document, and gives
\* the assignments pairwise distinct subtask ids from which the fan-in handler
\* recovers the task id.
C31_DispatchIsRoundRobin ==
    [][NewAssignments # <<>> =>
           LET sm == ret'.sm
               slice == ret'.document_chunk
               sent == NewAssignments
           IN  /\ ret'.op = "process_task"
               /\ Len(sent) = Len(slice)
               /\ \A i \in 0..(Len(slice) - 1) :
                      /\ sent[i + 1].channel = ch_subtasks(WorkerOf(sm, i))
                      /\ sent[i + 1].worker_id = WorkerOf(sm, i)
                      /\ sent[i + 1].subtask_data.document = slice[i + 1]
               /\ \A j, k \in 1..Len(sent) :
                      j # k => sent[j].subtask_data.subtask_id
                                   # sent[k].subtask_data.subtask_id
               /\ \A k \in 1..Len(sent) :
                      TaskIdOf(sent[k].subtask_data.subtask_id) = ret'.task_id]_vars

\* the worker result messages a step publishes
NewUnitResults ==
    SelectSeq(SubSeq(message_history', Len(message_history) + 1, Len(message_history')),
              LAMBDA m : m.channel = ch_worker_results)

\* the sub-master holds the result in a tracking record of active or in a
\* compiled result of compiled
Records(active, compiled, sm, result) ==
    \/ \E task_id \in DOMAIN active[sm] :
           result \in Range(active[sm][task_id].worker_results)
    \/ \E task_id \in DOMAIN compiled[sm] :
           result \in Range(compiled[sm][task_id].worker_results)

\* C32: every worker result is recorded by exactly one sub-master, the one
\* whose pool holds the worker that produced it; no sub-master records a
\* result produced for another sub-master's slice.
C32_ResultsStayInTheirTier ==
    [][\A k \in 1..Len(NewUnitResults) :
           LET m == NewUnitResults[k]
           IN  {sm \in SubMasters :
                   Records(sm_active_tasks', sm_task_results', sm, m.result)}
                   = {sm \in SubMasters : m.worker_id \in Range(workers[sm])}]_vars

\* C32, the second half alone: no sub-master records a result of a worker of
\* another sub-master's pool.
C32_NoForeignResult ==
    [][\A k \in 1..Len(NewUnitResults) :
           LET m == NewUnitResults[k]
           IN  \A sm \in SubMasters :
                   Records(sm_active_tasks', sm_task_results', sm, m.result) => m.worker_id \in Range(workers[sm])]_vars

----------------------------------------------------------------------------
(* Properties of the distribution of a batch                               *)

\* the task assignments a step publishes, in the order of publication
NewTaskAssignments ==
    SelectSeq(SubSeq(message_history', Len(message_history) + 1, Len(message_history')),
              LAMBDA m : "task_data" \in DOMAIN m)

\* the places <<k, j>> of the assignments that hold the document
PlacesOf(sent, document) ==
    UNION {{<<k, j>> : j \in {j \in 1..Len(sent[k].task_data.document_chunk) :
                                 sent[k].task_data.document_chunk[j] = document}} :
              k \in 1..Len(sent)}

\* C33: for a non-empty batch and a pool of M >= 1 sub-masters the assignments
\* the master publishes partition the batch: every document is in exactly one
\* assignment, no assignment is empty, at most M are published, no two go to
\* the same sub-master, and every group of the split is published.
C33_AssignmentsPartitionBatch ==
    [][(ret'.op = "process_document_batch" /\ ret'.documents # <<>>) =>
           LET documents == ret'.documents
               sent == NewTaskAssignments
           IN  /\ Len(sub_masters) >= 1
               /\ Len(sent) >= 1
               /\ Len(sent) <= Len(sub_masters)
               /\ \A k \in 1..Len(sent) :
                      /\ sent[k].task_data.document_chunk # <<>>
                      /\ \E sm \in Range(sub_masters) :
                             /\ sent[k].channel = ch_tasks(sm)
                             /\ sent[k].sub_master_id = sm
               /\ \A j, k \in 1..Len(sent) :
                      j # k => sent[j].sub_master_id # sent[k].sub_master_id
               /\ \A i \in 1..Len(documents) :
                      Cardinality(PlacesOf(sent, documents[i])) = 1
               /\ SumLen([k \in 1..Len(sent) |-> sent[k].task_data.document_chunk])
                      = Len(documents)
               /\ [k \in 1..Len(sent) |-> sent[k].task_data.document_chunk]
                      = split_documents(documents, Len(sub_masters))]_vars

\* a batch that does not divide evenly was split over a pool of several
\* sub-masters, every one of which was sent a group
C33_Witness ==
    /\ ret.op = "process_document_batch"
    /\ Len(sub_masters) >= 2
    /\ Len(ret.documents) > Len(sub_masters)
    /\ Len(ret.documents) % Len(sub_masters) # 0
    /\ Len(AssignmentsOf(ret.value)) = Len(sub_masters)

\* C34: no task id is in both active_tasks and completed_tasks, so
\* get_task_status never answers with a completed report for a task that is
\* still being processed.
C34_ActiveAndCompletedDisjoint ==
    \A task_id \in DOMAIN active_tasks :
        /\ task_id \notin DOMAIN completed_tasks
        /\ get_task_status(State, task_id).status = "processing"

====
